---- MODULE Spec2Model ----
(***************************************************************************)
(* Model of the subscription classification, daily snapshot recorder and   *)
(* cohort analytics of the stripe-dashboard repository.                    *)
(*                                                                         *)
(*   api/cron/daily-sync.js          classification, sync, recorder        *)
(*   server/index.js                 webhook handlers                      *)
(*   api/retention/calculate.js      retention request                     *)
(*   api/trial-conversion/calculate.js  trial-conversion request           *)
(*                                                                         *)
(* Dates are integers (day numbers).  The clock `now` counts half-days so  *)
(* that the UTC date and the America/Los_Angeles date can differ.          *)
(***************************************************************************)
EXTENDS Integers, Sequences, FiniteSets, Bags, TLC

\* ------------------------------------------------------------------ bounds
MaxSubs == 2
MaxRuns == 2
MaxNow == 4
MaxFailures == 1
BatchSize == 1

\* A nullable number (canceled_at, percent_off, amount_off, unit_amount) is
\* an integer, Null standing for JavaScript null/undefined.
Null == -1

SubIds == 1..MaxSubs
Runs == 1..MaxRuns

\* ------------------------------------------------------------------ clock
\* new Date().toISOString().split('T')[0]: the UTC calendar date.
UtcDate(t) == t \div 2

\* The endpoints' date taken as the UTC calendar date.
getPacificDate_utc(t) == t \div 2

\* getPacificDate(): the America/Los_Angeles calendar date; in the first
\* half of a UTC day Pacific time is still on the previous date.
getPacificDate(t) == (t - 1) \div 2

getPacificDateDaysAgo(t, days) == getPacificDate(t) - days

\* ------------------------------------------------ classification engine
Statuses ==
  {"active", "trialing", "past_due", "canceled", "incomplete",
   "incomplete_expired", "unpaid"}

\* Math.round of the non-negative quotient 100*a/b.
RoundPct(a, b) == (200 * a + b) \div (2 * b)

\* A subscription object of the billing source:
\*   [id, customer, status, canceled_at, discount, has_items, items]
\* discount is [present, has_coupon, percent_off, amount_off]; an item is
\* [has_price, unit_amount, quantity, interval].
RECURSIVE SumItems(_)
SumItems(items) ==
  IF items = <<>> THEN 0
  ELSE Head(items).unit_amount * Head(items).quantity + SumItems(Tail(items))

\* A JavaScript number is falsy when it is null/undefined or 0.
Falsy(v) == v = Null \/ v = 0

\* Reading item.price.unit_amount of an item without price, or
\* subscription.items.data of a subscription without items, raises.
ItemsRaise(subscription) ==
  \/ ~subscription.has_items
  \/ \E k \in 1..Len(subscription.items) : ~subscription.items[k].has_price

calculateDiscountPercentRaises(subscription) ==
  /\ subscription.discount.present
  /\ subscription.discount.has_coupon
  /\ Falsy(subscription.discount.percent_off)
  /\ ~Falsy(subscription.discount.amount_off)
  /\ ItemsRaise(subscription)

\* The amount-off percentage taken against the first line item only.
calculateDiscountPercent_firstItem(subscription) ==
  IF ~subscription.discount.present \/ ~subscription.discount.has_coupon
    THEN 0
  ELSE LET coupon == subscription.discount IN
    IF ~Falsy(coupon.percent_off) THEN coupon.percent_off
    ELSE IF ~Falsy(coupon.amount_off) THEN
      LET subscriptionAmount ==
            IF subscription.items = << >> THEN 0
            ELSE Head(subscription.items).unit_amount
                   * Head(subscription.items).quantity IN
        IF subscriptionAmount > 0
          THEN RoundPct(coupon.amount_off, subscriptionAmount)
          ELSE 0
    ELSE 0

calculateDiscountPercent(subscription) ==
  IF ~subscription.discount.present \/ ~subscription.discount.has_coupon
    THEN 0
  ELSE LET coupon == subscription.discount IN
    IF ~Falsy(coupon.percent_off) THEN coupon.percent_off
    ELSE IF ~Falsy(coupon.amount_off) THEN
      LET subscriptionAmount == SumItems(subscription.items) IN
        IF subscriptionAmount > 0
          THEN RoundPct(coupon.amount_off, subscriptionAmount)
          ELSE 0
    ELSE 0

isSubscriptionActive(status) == status \in {"active", "trialing", "past_due"}

\* An email is a sequence of tokens (<<>> is null or the empty string, both
\* falsy); String.endsWith compares the tail of the string.
EndsWith(s, suffix) ==
  /\ Len(s) >= Len(suffix)
  /\ SubSeq(s, Len(s) - Len(suffix) + 1, Len(s)) = suffix

ExcludedSuffix == <<"usebear.ai">>

EmailExcluded(customer) ==
  customer.email # <<>> /\ EndsWith(customer.email, ExcludedSuffix)

shouldCountSubscription(subscription, customer) ==
  IF subscription.status # "active" THEN FALSE
  ELSE IF ~Falsy(subscription.canceled_at) THEN FALSE
  ELSE IF calculateDiscountPercent(subscription) >= 100 THEN FALSE
  ELSE IF EmailExcluded(customer) THEN FALSE
  ELSE TRUE

\* shouldCountTrial with the status test also letting 'active' through.
shouldCountTrial_statusSlip(subscription, customer) ==
  IF subscription.status \notin {"trialing", "active"} THEN FALSE
  ELSE IF ~Falsy(subscription.canceled_at) THEN FALSE
  ELSE IF calculateDiscountPercent(subscription) >= 100 THEN FALSE
  ELSE IF EmailExcluded(customer) THEN FALSE
  ELSE TRUE

shouldCountTrial(subscription, customer) ==
  IF subscription.status # "trialing" THEN FALSE
  ELSE IF ~Falsy(subscription.canceled_at) THEN FALSE
  ELSE IF calculateDiscountPercent(subscription) >= 100 THEN FALSE
  ELSE IF EmailExcluded(customer) THEN FALSE
  ELSE TRUE

\* Monthly values are held in units of 1/30000 dollar, the least unit in
\* which /100, /100/12, /100*4.33 and /100*30 of a cent amount are integers.
\* The normalisation with a month counted as four weeks.
normalizeToMonthly_fourWeeks(amount, interval) ==
  CASE interval = "month" -> amount * 300
    [] interval = "year" -> amount * 25
    [] interval = "week" -> amount * 1200
    [] interval = "day" -> amount * 9000
    [] OTHER -> amount * 300

normalizeToMonthly(amount, interval) ==
  CASE interval = "month" -> amount * 300
    [] interval = "year" -> amount * 25
    [] interval = "week" -> amount * 1299
    [] interval = "day" -> amount * 9000
    [] OTHER -> amount * 300

billingInterval(subscription) ==
  IF subscription.items = <<>> THEN "month"
  ELSE IF Head(subscription.items).interval = "" THEN "month"
  ELSE Head(subscription.items).interval

\* The row that processSubscription builds for the subscriptions table.
processSubscription(subscription, customer) ==
  [stripe_subscription_id |-> subscription.id,
   stripe_customer_id |-> customer.id,
   subscription_status |-> subscription.status,
   monthly_total |->
     normalizeToMonthly(SumItems(subscription.items),
                        billingInterval(subscription)),
   is_active |-> isSubscriptionActive(subscription.status),
   percent_off |-> calculateDiscountPercent(subscription),
   is_counted |-> shouldCountSubscription(subscription, customer),
   is_trial_counted |-> shouldCountTrial(subscription, customer),
   date_canceled |-> subscription.canceled_at]

\* ------------------------------------------------------------- the state
VARIABLES
  now,            \* the clock, in half-days
  stripe,         \* billing source: subscription id -> subscription object
  subscriptions,  \* the subscriptions table: stripe_subscription_id -> row
  ledger,         \* customer_retention_snapshots: a bag of snapshot rows
  run,            \* the daily-sync invocations: run id -> handler state
  failures,       \* number of store/billing calls that have failed so far
  payments,       \* billing source: customer id -> list of invoices
  ret,            \* the retention request: handler state and response
  conv,           \* the trial-conversion request: handler state and response
  call,           \* one call of a classification function: input and outcome
  fetch           \* one call of getAllStripeSubscriptions: source and loop state

vars == <<now, stripe, subscriptions, ledger, run, failures, payments, ret,
          conv, call, fetch>>

\* The state of the two query endpoints, of the payment history they read
\* and of the classification call.
qvars == <<payments, ret, conv, call, fetch>>

\* --------------------------------------------------- the billing source
CustomerOf(s) == (s + 1) \div 2

Customer(c) == [id |-> c, email |-> <<"user", "@", "example.com">>]

NoDiscount ==
  [present |-> FALSE, has_coupon |-> FALSE, percent_off |-> Null,
   amount_off |-> Null]

FullDiscount ==
  [present |-> TRUE, has_coupon |-> TRUE, percent_off |-> 100,
   amount_off |-> Null]

MkSub(s, status, canceled_at, discount) ==
  [id |-> s, customer |-> CustomerOf(s), status |-> status,
   canceled_at |-> canceled_at, discount |-> discount, has_items |-> TRUE,
   items |-> <<[has_price |-> TRUE, unit_amount |-> 1000 * s,
                quantity |-> 1, interval |-> "month"]>>]

\* The life cycle of a subscription: trial, paying, canceled.
LifeCycle(s) ==
  {MkSub(s, "trialing", Null, NoDiscount),
   MkSub(s, "active", Null, NoDiscount),
   MkSub(s, "canceled", 1, NoDiscount)}

\* The subscription objects the billing source can hold for id s:
\* subscription 1 goes through its life cycle, the others are steadily
\* paying.
StripeObjs(s) ==
  IF s = 1 THEN LifeCycle(s) ELSE {MkSub(s, "active", Null, NoDiscount)}

\* ------------------------------------------------------ bags of rows
BagOfSeq(q) ==
  LET elems == {q[k] : k \in 1..Len(q)} IN
    [e \in elems |-> Cardinality({k \in 1..Len(q) : q[k] = e})]

\* .eq('date', d) on the ledger.
RowsOn(L, d) ==
  LET elems == {e \in DOMAIN L : e.date = d} IN [e \in elems |-> L[e]]

\* The delete with .lte('date', d) in place of .eq('date', d).
DeleteDate_upTo(L, d) ==
  LET elems == {e \in DOMAIN L : e.date > d} IN [e \in elems |-> L[e]]

\* .delete().eq('date', d) on the ledger.
DeleteDate(L, d) ==
  LET elems == {e \in DOMAIN L : e.date # d} IN [e \in elems |-> L[e]]

\* Number of ledger rows for (date, subscription id).
RowCount(L, d, s) ==
  LET elems == {e \in DOMAIN L :
                  e.date = d /\ e.stripe_subscription_id = s} IN
    BagCardinality([e \in elems |-> L[e]])

\* The rows of a key-ordered table as the store returns them.
RECURSIVE TableRows(_, _)
TableRows(T, k) ==
  IF k > MaxSubs THEN <<>>
  ELSE IF k \in DOMAIN T THEN <<T[k]>> \o TableRows(T, k + 1)
  ELSE TableRows(T, k + 1)

\* -------------------------------------------------- the query endpoints
Customers == {CustomerOf(s) : s \in SubIds}

\* The rows the query .eq('date', d).eq('is_counted', true) returns when it
\* is evaluated on ledger L (retention/calculate.js lines 69-73, 81-85).
todaySubscriptions(L, d) ==
  LET elems == {e \in DOMAIN L : e.date = d /\ e.is_counted} IN
    [e \in elems |-> L[e]]

\* The rows of a bag in the order the store returns them.
RECURSIVE SeqOfBag(_)
SeqOfBag(B) ==
  IF DOMAIN B = {} THEN << >>
  ELSE LET e == CHOOSE x \in DOMAIN B : TRUE
           rest == [x \in DOMAIN B \ {e} |-> B[x]] IN
         [k \in 1..B[e] |-> e] \o SeqOfBag(rest)

\* Math.round(100 * 100 * a / b) for b > 0: a percentage in hundredths.
RoundRate(a, b) == (20000 * a + b) \div (2 * b)

\* JavaScript's not-a-number, the value of 0 / 0.
NaN == -1

\* The rate with the guard against an empty baseline left out.
retentionRate_unguarded(retainedCount, previousCount) ==
  IF previousCount = 0 THEN NaN ELSE RoundRate(retainedCount, previousCount)

\* retention/calculate.js lines 121 and 136.
retentionRate(retainedCount, previousCount) ==
  IF previousCount > 0 THEN RoundRate(retainedCount, previousCount) ELSE 0

\* retention/calculate.js lines 40-48: daysMap[period] || 3.
retentionDays(period) ==
  CASE period = "1" -> 1
    [] period = "3" -> 3
    [] period = "7" -> 7
    [] period = "14" -> 14
    [] period = "30" -> 30
    [] OTHER -> 3

\* The comparator that looks at monthly_value only.
DetailBefore_valueOnly(a, b) == a.monthly_value > b.monthly_value

\* lines 127-131: the comparator of subscription_details.
DetailBefore(a, b) ==
  IF a.status = "churned" /\ b.status = "retained" THEN TRUE
  ELSE IF a.status = "retained" /\ b.status = "churned" THEN FALSE
  ELSE a.monthly_value > b.monthly_value

\* Array.prototype.sort (stable) with that comparator.
RECURSIVE InsertDetail(_, _)
InsertDetail(x, q) ==
  IF q = << >> THEN <<x>>
  ELSE IF DetailBefore(x, Head(q)) THEN <<x>> \o q
  ELSE <<Head(q)>> \o InsertDetail(x, Tail(q))

RECURSIVE SortDetails(_)
SortDetails(q) ==
  IF q = << >> THEN << >>
  ELSE InsertDetail(q[Len(q)], SortDetails(SubSeq(q, 1, Len(q) - 1)))

\* lines 96-116: one detail per baseline row, retained when its
\* subscription id is among today's counted ids.
subscriptionDetail(sub, todaySubscriptionIds) ==
  [stripe_subscription_id |-> sub.stripe_subscription_id,
   stripe_customer_id |-> sub.stripe_customer_id,
   monthly_value |-> sub.monthly_value,
   status |-> IF sub.stripe_subscription_id \in todaySubscriptionIds
                THEN "retained" ELSE "churned"]

IdleRet ==
  [pc |-> "idle", route |-> "", period |-> "", todayStr |-> 0, previousDateStr |-> 0,
   http |-> 0, retention_rate |-> 0, previous_period_customers |-> 0,
   current_period_customers |-> 0, retained_customers |-> 0,
   churned_customers |-> 0, new_customers |-> 0,
   subscription_details |-> << >>]

\* The handler of api/retention/calculate.js for one request.  Either store
\* query may fail, which ends the request with a 500 response.
retentionCalculate(period, previousOk, todayOk) ==
  /\ ret.pc = "idle"
  /\ LET days == retentionDays(period)
         todayStr == getPacificDate(now)
         previousDateStr == getPacificDateDaysAgo(now, days)
         previousSubscriptions ==
           SeqOfBag(todaySubscriptions(ledger, previousDateStr))
         todaySubscriptionIds ==
           {e.stripe_subscription_id :
              e \in DOMAIN todaySubscriptions(ledger, todayStr)}
         details ==
           [k \in 1..Len(previousSubscriptions) |->
              subscriptionDetail(previousSubscriptions[k],
                                 todaySubscriptionIds)]
         IsRetained(d) == d.status = "retained"
         IsChurned(d) == d.status = "churned"
         retained == SelectSeq(details, IsRetained)
         churned == SelectSeq(details, IsChurned)
         previousCount == Len(previousSubscriptions)
     IN
       ret' =
         IF ~previousOk \/ ~todayOk
           THEN [IdleRet EXCEPT !.pc = "done", !.route = "api",
                   !.period = period, !.todayStr = todayStr,
                   !.previousDateStr = previousDateStr, !.http = 500]
           ELSE [pc |-> "done", route |-> "api", period |-> period,
                 todayStr |-> todayStr,
                 previousDateStr |-> previousDateStr, http |-> 200,
                 retention_rate |->
                   retentionRate(Len(retained), previousCount),
                 previous_period_customers |-> previousCount,
                 current_period_customers |-> previousCount,
                 retained_customers |-> Len(retained),
                 churned_customers |-> Len(churned),
                 new_customers |-> 0,
                 subscription_details |-> SortDetails(churned \o retained)]
  /\ previousOk \/ todayOk
  /\ failures' = failures + (IF previousOk /\ todayOk THEN 0 ELSE 1)
  /\ failures' <= MaxFailures
  /\ UNCHANGED <<now, stripe, subscriptions, ledger, run, payments, conv,
                 call, fetch>>

\* The same route as the Express server serves it (server/index.js lines
\* 1199-1332): today is the UTC date, the rows asked for are the counted
\* ones that are not trialing, one detail is built per baseline row, and
\* the metrics count distinct customer ids.
payingCustomers(L, d) ==
  LET elems == {e \in DOMAIN L : /\ e.date = d /\ e.is_counted
                                  /\ e.subscription_status # "trialing"} IN
    [e \in elems |-> L[e]]

customerDetail(customer, todayCustomerIds) ==
  [stripe_subscription_id |-> customer.stripe_subscription_id,
   stripe_customer_id |-> customer.stripe_customer_id,
   monthly_value |-> customer.monthly_value,
   status |-> IF customer.stripe_customer_id \in todayCustomerIds
                THEN "retained" ELSE "churned"]

serverRetentionCalculate(period, previousOk, todayOk) ==
  /\ ret.pc = "idle"
  /\ LET days == retentionDays(period)
         todayStr == UtcDate(now)
         previousDateStr == UtcDate(now) - days
         previousCustomers ==
           SeqOfBag(payingCustomers(ledger, previousDateStr))
         todayCustomers == SeqOfBag(payingCustomers(ledger, todayStr))
         todayCustomerIds ==
           {todayCustomers[k].stripe_customer_id :
              k \in 1..Len(todayCustomers)}
         previousCustomerIds ==
           {previousCustomers[k].stripe_customer_id :
              k \in 1..Len(previousCustomers)}
         retainedCount ==
           Cardinality(previousCustomerIds \cap todayCustomerIds)
         churnedCount ==
           Cardinality(previousCustomerIds \ todayCustomerIds)
         newCount ==
           Cardinality({k \in 1..Len(todayCustomers) :
              todayCustomers[k].stripe_customer_id
                \notin previousCustomerIds})
         previousCount == Cardinality(previousCustomerIds)
         details ==
           [k \in 1..Len(previousCustomers) |->
              customerDetail(previousCustomers[k], todayCustomerIds)]
     IN
       ret' =
         IF ~previousOk \/ ~todayOk
           THEN [IdleRet EXCEPT !.pc = "done", !.route = "server",
                   !.period = period, !.todayStr = todayStr,
                   !.previousDateStr = previousDateStr, !.http = 500]
           ELSE [pc |-> "done", route |-> "server", period |-> period,
                 todayStr |-> todayStr,
                 previousDateStr |-> previousDateStr, http |-> 200,
                 retention_rate |->
                   retentionRate(retainedCount, previousCount),
                 previous_period_customers |-> previousCount,
                 current_period_customers |->
                   Cardinality(todayCustomerIds),
                 retained_customers |-> retainedCount,
                 churned_customers |-> churnedCount,
                 new_customers |-> newCount,
                 subscription_details |-> SortDetails(details)]
  /\ previousOk \/ todayOk
  /\ failures' = failures + (IF previousOk /\ todayOk THEN 0 ELSE 1)
  /\ failures' <= MaxFailures
  /\ UNCHANGED <<now, stripe, subscriptions, ledger, run, payments, conv,
                 call, fetch>>

\* ---------------------------------------------- trial-conversion request
\* An invoice of the payment history is
\*   [status, amount_paid, has_charge, charge, has_payment_intent, intent]
\* with charge = [refunded, amount_refunded, status, blocked] and
\* intent = [status, amount, refunded] (refunded: the sum of its refunds).
InvoicePays(invoice) ==
  /\ invoice.status = "paid"
  /\ invoice.amount_paid > 0
  /\ IF invoice.has_charge
       THEN /\ ~invoice.charge.refunded
            /\ invoice.charge.amount_refunded = 0
            /\ invoice.charge.status = "succeeded"
            /\ ~invoice.charge.blocked
       ELSE /\ invoice.has_payment_intent
            /\ invoice.intent.status = "succeeded"
            /\ invoice.intent.refunded < invoice.intent.amount

\* The lookup with a failing billing call taken as proof of payment.
hasSuccessfulPayment_failOpen(invoices, apiOk) ==
  \/ ~apiOk
  \/ \E k \in 1..Len(invoices) : InvoicePays(invoices[k])

\* hasSuccessfulPayment: true when some invoice of the customer is paid and
\* not refunded; a failing billing call is caught and gives false.
hasSuccessfulPayment(invoices, apiOk) ==
  /\ apiOk
  /\ \E k \in 1..Len(invoices) : InvoicePays(invoices[k])

\* trial-conversion/calculate.js lines 124-131: daysMap[period] || 7.
conversionDays(period) ==
  CASE period = "7" -> 7
    [] period = "14" -> 14
    [] period = "30" -> 30
    [] OTHER -> 7

\* lines 187-192: the trial-counted rows inside the lookback window.
trialSnapshots(L, from, to) ==
  {e \in DOMAIN L : e.is_trial_counted /\ e.date >= from /\ e.date <= to}

\* lines 200-220: the distinct subscription ids of those rows.
trialSubscriptionIds(L, from, to) ==
  {e.stripe_subscription_id : e \in trialSnapshots(L, from, to)}

\* lines 210-216: the earliest date among an id's rows.
MinOf(S) == CHOOSE x \in S : \A y \in S : x <= y

first_trial_date(L, from, to, id) ==
  MinOf({e.date : e \in {x \in trialSnapshots(L, from, to) :
                            x.stripe_subscription_id = id}})

\* lines 187-192: the rows that query returns, in the order the store
\* returns them (no .order() is asked for): `order` permutes them.
TrialRows(L, from, to) ==
  SeqOfBag([e \in trialSnapshots(L, from, to) |-> L[e]])

Reordered(rows, order) == [k \in 1..Len(rows) |-> rows[order[k]]]

\* The callback that keeps for each id the date of the row seen first.
forEachSnapshot_firstSeen(seen, snapshot) ==
  LET id == snapshot.stripe_subscription_id IN
    IF id \notin DOMAIN seen
      THEN [k \in DOMAIN seen \cup {id} |->
              IF k = id THEN snapshot.date ELSE seen[k]]
    ELSE seen

\* lines 201-217: the forEach callback; `seen` is the map id ->
\* first_trial_date built so far.
forEachSnapshot(seen, snapshot) ==
  LET id == snapshot.stripe_subscription_id IN
    IF id \notin DOMAIN seen
      THEN [k \in DOMAIN seen \cup {id} |->
              IF k = id THEN snapshot.date ELSE seen[k]]
    ELSE IF snapshot.date < seen[id]
      THEN [seen EXCEPT ![id] = snapshot.date]
    ELSE seen

\* lines 200-218: uniqueTrialSubscriptions after the forEach over the
\* returned rows.
RECURSIVE uniqueTrialSubscriptions(_)
uniqueTrialSubscriptions(rows) ==
  IF rows = << >> THEN << >>
  ELSE forEachSnapshot(
         uniqueTrialSubscriptions(SubSeq(rows, 1, Len(rows) - 1)),
         rows[Len(rows)])

\* lines 256-262: is the id in 'trialing' status in today's snapshot.
stillTrialing(L, today, id) ==
  \E e \in DOMAIN L : /\ e.stripe_subscription_id = id
                        /\ e.date = today
                        /\ e.subscription_status = "trialing"

\* lines 282-293: the earliest is_counted row dated on or after the first
\* trial date, null when there is none.
conversionDate(L, id, firstTrialDate) ==
  LET dates == {e.date : e \in {x \in DOMAIN L :
                                   /\ x.stripe_subscription_id = id
                                   /\ x.is_counted
                                   /\ x.date >= firstTrialDate}} IN
    IF dates = {} THEN Null ELSE MinOf(dates)

IdleConv ==
  [pc |-> "idle", period |-> "", todayStr |-> 0, lookbackDateStr |-> 0,
   http |-> 0, conversion_rate |-> 0, total_trials |-> 0,
   converted_trials |-> 0, unconverted_trials |-> 0, trial_details |-> {},
   statusErrors |-> {}, paymentErrors |-> {}, cohort |-> << >>]

\* The handler of api/trial-conversion/calculate.js for one request.
\*   lookbackOk, trialOk: the two cohort queries succeed (else 500);
\*   statusErr: ids whose status query fails (the id is skipped);
\*   payErr: ids for which the payment-history lookup raises;
\*   dateErr: ids whose conversion-date query fails (date stays null).
\* The store returns the trial rows in any order.
\* statusErrors and paymentErrors are what console.error records (lines 265
\* and 114); they are not part of the response.
trialConversion(period, lookbackOk, trialOk, statusErr, payErr, dateErr) ==
  /\ conv.pc = "idle"
  /\ failures' = failures + (IF lookbackOk /\ trialOk THEN 0 ELSE 1)
                  + Cardinality(statusErr) + Cardinality(payErr)
                  + Cardinality(dateErr)
  /\ failures' <= MaxFailures
  /\ LET days == conversionDays(period)
         lookbackDays == days + 1
         todayStr == getPacificDate(now)
         lookbackDateStr == getPacificDateDaysAgo(now, lookbackDays)
         base == [IdleConv EXCEPT !.pc = "done", !.period = period,
                    !.todayStr = todayStr,
                    !.lookbackDateStr = lookbackDateStr]
         returned == TrialRows(ledger, lookbackDateStr, todayStr)
         \* the ids the per-id calls are made for
         asked == {returned[k].stripe_subscription_id :
                     k \in 1..Len(returned)}
         Settled(S) == {id \in S \ statusErr :
                         ~stillTrialing(ledger, todayStr, id)}
         Converted(id) ==
           hasSuccessfulPayment(payments[CustomerOf(id)], id \notin payErr)
         Detail(unique, id) ==
           [stripe_subscription_id |-> id,
            stripe_customer_id |-> CustomerOf(id),
            first_trial_date |-> unique[id],
            converted |-> Converted(id),
            conversion_date |->
              IF Converted(id) /\ id \notin dateErr
                THEN conversionDate(ledger, id, unique[id]) ELSE Null]
         Answer(unique) ==
           LET details == {Detail(unique, id) : id \in Settled(DOMAIN unique)}
               convertedCount == Cardinality({d \in details : d.converted})
               unconvertedCount ==
                 Cardinality({d \in details : ~d.converted})
               actualTrialsCount == convertedCount + unconvertedCount IN
             IF DOMAIN unique = {}
               THEN [base EXCEPT !.http = 200]
             ELSE [base EXCEPT !.http = 200,
                     !.cohort = unique,
                     !.conversion_rate =
                       IF actualTrialsCount > 0
                         THEN RoundRate(convertedCount, actualTrialsCount)
                         ELSE 0,
                     !.total_trials = actualTrialsCount,
                     !.converted_trials = convertedCount,
                     !.unconverted_trials = unconvertedCount,
                     !.trial_details = details,
                     !.statusErrors = statusErr,
                     !.paymentErrors = payErr]
     IN
       /\ statusErr \subseteq asked
       /\ payErr \subseteq Settled(asked)
       /\ dateErr \subseteq {id \in Settled(asked) : Converted(id)}
       \* a call that is never made cannot fail
       /\ ~lookbackOk => trialOk
       /\ RowsOn(ledger, lookbackDateStr) = EmptyBag => trialOk
       /\ ( \/ ~lookbackOk \/ ~trialOk
            \/ RowsOn(ledger, lookbackDateStr) = EmptyBag )
          => statusErr = {} /\ payErr = {} /\ dateErr = {}
       /\ IF ~lookbackOk \/ (RowsOn(ledger, lookbackDateStr) # EmptyBag
                              /\ ~trialOk)
            THEN conv' = [base EXCEPT !.http = 500]
          ELSE IF RowsOn(ledger, lookbackDateStr) = EmptyBag
            THEN conv' = [base EXCEPT !.http = 200]
          ELSE \E order \in Permutations(1..Len(returned)) :
                 conv' = Answer(uniqueTrialSubscriptions(
                                  Reordered(returned, order)))
  /\ UNCHANGED <<now, stripe, subscriptions, ledger, run, payments, ret,
                 call, fetch>>

\* ------------------------------------------- classification calls
\* A call of one of the classification functions: fn is the function, the
\* outcome is a raised exception, a boolean (flag) or a number (value).
IdleCall ==
  [pc |-> "idle", fn |-> "", subscription |-> MkSub(1, "active", Null, NoDiscount),
   customer |-> Customer(1), amount |-> 0, interval |-> "month",
   raised |-> FALSE, flag |-> FALSE, value |-> 0]

\* No call of getAllStripeSubscriptions is under way.
NoGlitch == -2

IdleFetch ==
  [pc |-> "idle", source |-> << >>, glitch |-> NoGlitch,
   subscriptions |-> << >>, hasMore |-> TRUE, startingAfter |-> Null]

\* ------------------------------------------------------------- initial
IdleRun ==
  [pc |-> "idle", order |-> 0, processed |-> 0, errors |-> 0, today |-> 0,
   batch |-> <<>>, i |-> 0, totalInserted |-> 0, insertErrors |-> 0,
   mrrFailed |-> FALSE, loadFailed |-> FALSE, deleteFailed |-> FALSE,
   before |-> EmptyBag, after |-> EmptyBag, response |-> "none"]

Init ==
  /\ now = 3
  /\ stripe \in [SubIds -> UNION {StripeObjs(s) : s \in SubIds}]
  /\ \A s \in SubIds : stripe[s] \in StripeObjs(s)
  /\ stripe[1].status = "trialing"
  /\ subscriptions = << >>
  /\ ledger = EmptyBag
  /\ run = [r \in Runs |-> IdleRun]
  /\ failures = 0
  /\ payments = [c \in Customers |-> << >>]
  /\ ret = IdleRet
  /\ conv = IdleConv
  /\ call = IdleCall
  /\ fetch = IdleFetch

\* ---------------------------------------------------------------- clock
Tick ==
  /\ now < MaxNow
  /\ now' = now + 1
  /\ UNCHANGED <<stripe, subscriptions, ledger, run, failures, qvars>>

\* A billing event changes a subscription at the source; a canceled
\* subscription is terminal.
StripeChange(s, o) ==
  /\ stripe[s].status # "canceled"
  /\ o \in StripeObjs(s) \ {stripe[s]}
  /\ stripe' = [stripe EXCEPT ![s] = o]
  /\ UNCHANGED <<now, subscriptions, ledger, run, failures, qvars>>

\* ------------------------------------------------------------- webhooks
\* .upsert(row, {onConflict: 'stripe_subscription_id'})
Upsert(T, row) ==
  [k \in DOMAIN T \cup {row.stripe_subscription_id} |->
     IF k = row.stripe_subscription_id THEN row ELSE T[k]]

syncSubscriptionToSupabase(T, subscription) ==
  Upsert(T, processSubscription(subscription, Customer(subscription.customer)))

WebhookTypes ==
  {"customer.subscription.created", "customer.subscription.updated",
   "customer.subscription.deleted", "invoice.payment_succeeded",
   "invoice.payment_failed"}

\* The deleted event handled by deleting the subscription's row.
handleSubscriptionDeleted_removes(T, subscription) ==
  [k \in DOMAIN T \ {subscription.id} |-> T[k]]

handleSubscriptionDeleted(T, subscription) ==
  syncSubscriptionToSupabase(T,
    [subscription EXCEPT !.status = "canceled", !.canceled_at = 1])

\* A webhook event about subscription s that is processed successfully (a
\* failed upsert raises and leaves the table as it was).
handleWebhook(type, s) ==
  /\ type \in WebhookTypes
  /\ type = "customer.subscription.deleted" => stripe[s].status = "canceled"
  /\ subscriptions' =
       IF type = "customer.subscription.deleted"
         THEN handleSubscriptionDeleted(subscriptions, stripe[s])
         ELSE syncSubscriptionToSupabase(subscriptions, stripe[s])
  /\ subscriptions' # subscriptions
  /\ UNCHANGED <<now, stripe, ledger, run, failures, qvars>>

\* ----------------------------------------------------------- daily sync
Started(r) == run[r].pc # "idle"
Running(r) == run[r].pc \notin {"idle", "done"}

\* handler: getAllStripeSubscriptions followed by syncToSupabase.  A failed
\* fetch ends the handler with an error response; otherwise every fetched
\* subscription is upserted, the upserts of `failed` returning an error.
syncToSupabase(r, fetchOk, failed) ==
  /\ run[r].pc = "idle"
  /\ \A q \in Runs : q < r => Started(q)
  /\ failures + Cardinality(failed) + (IF fetchOk THEN 0 ELSE 1) <= MaxFailures
  /\ failures' = failures + Cardinality(failed) + (IF fetchOk THEN 0 ELSE 1)
  /\ LET order == 1 + Cardinality({q \in Runs : Started(q)}) IN
     IF ~fetchOk
       THEN /\ failed = {}
            /\ run' = [run EXCEPT ![r].pc = "done", ![r].order = order,
                                   ![r].response = "error"]
            /\ UNCHANGED subscriptions
       ELSE /\ subscriptions' =
                 [k \in DOMAIN subscriptions \cup (SubIds \ failed) |->
                    IF k \in failed THEN subscriptions[k]
                    ELSE processSubscription(stripe[k],
                                             Customer(stripe[k].customer))]
            /\ run' = [run EXCEPT ![r].pc = "mrr", ![r].order = order,
                         ![r].processed = Cardinality(SubIds \ failed),
                         ![r].errors = Cardinality(failed)]
  /\ UNCHANGED <<now, stripe, ledger, qvars>>

\* A store call that fails uses up one of the failures the run may meet.
Fails(ok) ==
  /\ ~ok => failures < MaxFailures
  /\ failures' = IF ok THEN failures ELSE failures + 1

\* The MRR stage whose failure is rethrown to the handler.
saveHistoricalMRR_throws(r, ok) ==
  /\ run[r].pc = "mrr"
  /\ Fails(ok)
  /\ run' = IF ok THEN [run EXCEPT ![r].pc = "load"]
            ELSE [run EXCEPT ![r].pc = "done", ![r].mrrFailed = TRUE,
                             ![r].response = "error"]
  /\ UNCHANGED <<now, stripe, subscriptions, ledger, qvars>>

\* saveHistoricalMRR, lines 216-276: writes the historical_mrr table only;
\* a failure of one of its store calls is caught and logged (lines 272-275).
saveHistoricalMRR(r, ok) ==
  /\ run[r].pc = "mrr"
  /\ Fails(ok)
  /\ run' = [run EXCEPT ![r].pc = "load", ![r].mrrFailed = ~ok]
  /\ UNCHANGED <<now, stripe, subscriptions, ledger, qvars>>

\* The snapshot row the recorder builds from one subscriptions row.
customerSnapshot(sub, today) ==
  [date |-> today,
   stripe_customer_id |-> sub.stripe_customer_id,
   stripe_subscription_id |-> sub.stripe_subscription_id,
   subscription_status |-> sub.subscription_status,
   monthly_value |-> sub.monthly_total,
   is_active |-> sub.is_active,
   is_counted |-> sub.is_counted,
   is_trial_counted |-> sub.is_trial_counted,
   percent_off |-> sub.percent_off]

customerSnapshots(T, today) ==
  LET rows == TableRows(T, 1) IN
    [k \in 1..Len(rows) |-> customerSnapshot(rows[k], today)]

\* The handler's response once the recorder has returned.
Respond(rn) == [rn EXCEPT !.pc = "done", !.response = "success"]

\* The load whose failure is only logged, the run going on to the delete.
recorderLoad_proceeds(r, ok) ==
  /\ run[r].pc = "load"
  /\ Fails(ok)
  /\ run' =
       IF ok
         THEN [run EXCEPT ![r].pc = "delete",
                 ![r].today = UtcDate(now),
                 ![r].batch = customerSnapshots(subscriptions, UtcDate(now)),
                 ![r].before = RowsOn(ledger, UtcDate(now))]
         ELSE [run EXCEPT ![r].pc = "delete",
                 ![r].today = UtcDate(now),
                 ![r].loadFailed = TRUE,
                 ![r].before = RowsOn(ledger, UtcDate(now))]
  /\ UNCHANGED <<now, stripe, subscriptions, ledger, qvars>>

\* saveCustomerRetentionSnapshots, lines 283-304: load the subscriptions
\* table and build the batch; a failed load is caught and ends the recorder.
recorderLoad(r, ok) ==
  /\ run[r].pc = "load"
  /\ Fails(ok)
  /\ run' =
       IF ok
         THEN [run EXCEPT ![r].pc = "delete",
                 ![r].today = UtcDate(now),
                 ![r].batch = customerSnapshots(subscriptions, UtcDate(now)),
                 ![r].before = RowsOn(ledger, UtcDate(now))]
         ELSE [run EXCEPT ![r] = Respond([run[r] EXCEPT !.loadFailed = TRUE])]
  /\ UNCHANGED <<now, stripe, subscriptions, ledger, qvars>>

\* The delete whose failure ends the recorder before any insert.
recorderDelete_aborts(r, ok) ==
  /\ run[r].pc = "delete"
  /\ Fails(ok)
  /\ ledger' = IF ok THEN DeleteDate(ledger, run[r].today) ELSE ledger
  /\ run' = IF ok THEN [run EXCEPT ![r].pc = "insert"]
            ELSE [run EXCEPT ![r] = Respond([run[r] EXCEPT
                                              !.deleteFailed = TRUE])]
  /\ UNCHANGED <<now, stripe, subscriptions, qvars>>

\* lines 306-314: delete today's rows; a failure is only a warning.
recorderDelete(r, ok) ==
  /\ run[r].pc = "delete"
  /\ Fails(ok)
  /\ ledger' = IF ok THEN DeleteDate(ledger, run[r].today) ELSE ledger
  /\ run' = [run EXCEPT ![r].pc = "insert", ![r].deleteFailed = ~ok]
  /\ UNCHANGED <<now, stripe, subscriptions, qvars>>

Min(a, b) == IF a < b THEN a ELSE b

\* The page insert whose failure ends the loop.
recorderInsertPage_breaks(r, ok) ==
  /\ run[r].pc = "insert"
  /\ run[r].i < Len(run[r].batch)
  /\ Fails(ok)
  /\ LET page == SubSeq(run[r].batch, run[r].i + 1,
                         Min(run[r].i + BatchSize, Len(run[r].batch))) IN
       /\ ledger' = IF ok THEN ledger (+) BagOfSeq(page) ELSE ledger
       /\ run' = [run EXCEPT ![r].i = IF ok THEN @ + BatchSize
                                      ELSE Len(run[r].batch),
                    ![r].totalInserted = IF ok THEN @ + Len(page) ELSE @,
                    ![r].insertErrors = IF ok THEN @ ELSE @ + 1]
  /\ UNCHANGED <<now, stripe, subscriptions, qvars>>

\* lines 321-337: insert one page of the batch; a failure is counted and the
\* loop goes on with the next page.
recorderInsertPage(r, ok) ==
  /\ run[r].pc = "insert"
  /\ run[r].i < Len(run[r].batch)
  /\ Fails(ok)
  /\ LET page == SubSeq(run[r].batch, run[r].i + 1,
                         Min(run[r].i + BatchSize, Len(run[r].batch))) IN
       /\ ledger' = IF ok THEN ledger (+) BagOfSeq(page) ELSE ledger
       /\ run' = [run EXCEPT ![r].i = @ + BatchSize,
                    ![r].totalInserted = IF ok THEN @ + Len(page) ELSE @,
                    ![r].insertErrors = IF ok THEN @ ELSE @ + 1]
  /\ UNCHANGED <<now, stripe, subscriptions, qvars>>

\* lines 339-348 and the handler's lines 377-391: the loop is over, the
\* recorder returns and the handler responds.
recorderFinish(r) ==
  /\ run[r].pc = "insert"
  /\ run[r].i >= Len(run[r].batch)
  /\ run' = [run EXCEPT ![r] =
               Respond([run[r] EXCEPT
                          !.after = RowsOn(ledger, run[r].today)])]
  /\ UNCHANGED <<now, stripe, subscriptions, ledger, failures, qvars>>

\* --------------------------------------- initial states of the queries
\* The query endpoints are checked on ledgers of up to MaxRows rows drawn
\* from three dates: the request's today, the day before and the start of
\* the shortest conversion lookback window (7 + 1 days before today).
MaxRows == 3
QToday == 10

QDates == {QToday - 8, QToday - 1, QToday}

\* Subscription 1 is seen in every stage of its life cycle, subscription 2
\* (of the same customer) in trial and paying, further ones steadily paying.
QObjs(s) ==
  IF s = 1 THEN LifeCycle(s)
  ELSE IF s = 2 THEN LifeCycle(s) \ {MkSub(s, "canceled", 1, NoDiscount)}
  ELSE {MkSub(s, "active", Null, NoDiscount)}

QRows ==
  {customerSnapshot(processSubscription(o, Customer(o.customer)), d) :
     d \in QDates, o \in UNION {QObjs(s) : s \in SubIds}}

\* A canceled subscription stays canceled.
CanceledStays(L) ==
  \A e \in DOMAIN L : \A f \in DOMAIN L :
    ( /\ e.stripe_subscription_id = f.stripe_subscription_id
      /\ e.subscription_status = "canceled"
      /\ e.date < f.date )
    => f.subscription_status = "canceled"

QLedgers ==
  {L \in {BagOfSeq(q) : q \in UNION {[1..n -> QRows] : n \in 0..MaxRows}} :
     CanceledStays(L)}

GoodCharge ==
  [refunded |-> FALSE, amount_refunded |-> 0, status |-> "succeeded",
   blocked |-> FALSE]

NoIntent == [status |-> "", amount |-> 0, refunded |-> 0]

Invoice(status, paid, hasCharge, charge, hasIntent, intent) ==
  [status |-> status, amount_paid |-> paid, has_charge |-> hasCharge,
   charge |-> charge, has_payment_intent |-> hasIntent, intent |-> intent]

\* Payment histories: none; only open, refunded or fully refunded payments;
\* a partially refunded payment intent; a plain successful charge.
InvoiceLists ==
  {<< >>,
   <<Invoice("open", 0, FALSE, GoodCharge, FALSE, NoIntent),
     Invoice("paid", 1000, TRUE, [GoodCharge EXCEPT !.refunded = TRUE,
                                    !.amount_refunded = 1000], FALSE, NoIntent),
     Invoice("paid", 1000, FALSE, GoodCharge, TRUE,
             [status |-> "succeeded", amount |-> 1000, refunded |-> 1000])>>,
   <<Invoice("paid", 1000, FALSE, GoodCharge, TRUE,
             [status |-> "succeeded", amount |-> 1000, refunded |-> 400])>>,
   <<Invoice("paid", 1000, TRUE, GoodCharge, FALSE, NoIntent)>>}

QInit ==
  /\ now = 2 * QToday + 1
  /\ stripe = [s \in SubIds |-> MkSub(s, "active", Null, NoDiscount)]
  /\ subscriptions = << >>
  /\ ledger \in QLedgers
  /\ run = [r \in Runs |-> IdleRun]
  /\ failures = 0
  /\ payments \in [Customers -> InvoiceLists]
  /\ \A c \in Customers :
       \* only the history of a customer with a trial row is ever read
       (\A e \in DOMAIN ledger :
          e.stripe_customer_id = c => ~e.is_trial_counted)
         => payments[c] = << >>
  /\ ret = IdleRet
  /\ conv = IdleConv
  /\ call = IdleCall
  /\ fetch = IdleFetch

\* ------------------------------------------------------- specifications
\* The steps of everything but the start of a daily-sync invocation.
Steps ==
  \/ Tick
  \/ \E s \in SubIds : \E o \in StripeObjs(s) : StripeChange(s, o)
  \/ \E s \in SubIds : \E type \in WebhookTypes : handleWebhook(type, s)
  \/ \E r \in Runs : \E ok \in BOOLEAN : saveHistoricalMRR(r, ok)
  \/ \E r \in Runs : \E ok \in BOOLEAN : recorderLoad(r, ok)
  \/ \E r \in Runs : \E ok \in BOOLEAN : recorderDelete(r, ok)
  \/ \E r \in Runs : \E ok \in BOOLEAN : recorderInsertPage(r, ok)
  \/ \E r \in Runs : recorderFinish(r)

NoneRunning == \A q \in Runs : ~Running(q)

\* The deployment's operational assumption: the cron job starts the daily
\* sync once a day, so an invocation starts when no other one is running.
cronDailySync(r, fetchOk, failed) ==
  NoneRunning /\ syncToSupabase(r, fetchOk, failed)

Next ==
  \/ Steps
  \/ \E r \in Runs : \E fetchOk \in BOOLEAN : \E failed \in SUBSET SubIds :
       cronDailySync(r, fetchOk, failed)

Spec == Init /\ [][Next]_vars

\* Without that assumption: invocations may overlap.
OverlapNext ==
  \/ Steps
  \/ \E r \in Runs : \E fetchOk \in BOOLEAN : \E failed \in SUBSET SubIds :
       syncToSupabase(r, fetchOk, failed)

OverlapSpec == Init /\ [][OverlapNext]_vars

\* Overlapping invocations from the point where they race: every
\* invocation has synchronised the n subscriptions of the billing source
\* (1 <= n <= MaxSubs) without an error and stands before its recorder
\* stage, all on the same UTC date.
InterleaveInit ==
  /\ now = 3
  /\ stripe = [s \in SubIds |-> MkSub(s, "active", Null, NoDiscount)]
  /\ \E n \in 1..MaxSubs :
       /\ subscriptions =
            [s \in 1..n |->
               processSubscription(stripe[s], Customer(stripe[s].customer))]
       /\ run = [r \in Runs |->
                  [IdleRun EXCEPT !.pc = "load", !.order = r,
                                  !.processed = n]]
  /\ ledger = EmptyBag
  /\ failures = 0
  /\ payments = [c \in Customers |-> << >>]
  /\ ret = IdleRet
  /\ conv = IdleConv
  /\ call = IdleCall
  /\ fetch = IdleFetch

InterleaveNext ==
  \/ \E r \in Runs : \E ok \in BOOLEAN : recorderLoad(r, ok)
  \/ \E r \in Runs : \E ok \in BOOLEAN : recorderDelete(r, ok)
  \/ \E r \in Runs : \E ok \in BOOLEAN : recorderInsertPage(r, ok)
  \/ \E r \in Runs : recorderFinish(r)

InterleaveSpec == InterleaveInit /\ [][InterleaveNext]_vars

\* The query endpoints: one request, to either endpoint, on a given ledger.
RetentionPeriods == {"1", "7", "other"}
ConversionPeriods == {"7", "14", "other"}

\* The ids with a trial-counted row: the only ones a conversion request
\* issues per-id calls for.
CohortCandidates ==
  {e.stripe_subscription_id : e \in {x \in DOMAIN ledger : x.is_trial_counted}}

NoRequestYet == ret.pc = "idle" /\ conv.pc = "idle"

retentionRequest(period, previousOk, todayOk) ==
  NoRequestYet /\ retentionCalculate(period, previousOk, todayOk)

serverRetentionRequest(period, previousOk, todayOk) ==
  NoRequestYet /\ serverRetentionCalculate(period, previousOk, todayOk)

\* The store and billing calls of a conversion request that may fail: the
\* two cohort queries and the per-id calls of the cohort candidates.
trialConversionRequest(period) ==
  /\ NoRequestYet
  /\ \E lookbackOk, trialOk \in BOOLEAN :
       \E statusErr \in SUBSET CohortCandidates :
         \E dateErr \in SUBSET CohortCandidates :
           \E payErr \in SUBSET CohortCandidates :
             trialConversion(period, lookbackOk, trialOk, statusErr, payErr,
                             dateErr)

QNext ==
  \/ \E period \in RetentionPeriods : \E previousOk, todayOk \in BOOLEAN :
       retentionRequest(period, previousOk, todayOk)
  \/ \E period \in RetentionPeriods : \E previousOk, todayOk \in BOOLEAN :
       serverRetentionRequest(period, previousOk, todayOk)
  \/ \E period \in ConversionPeriods : trialConversionRequest(period)

QuerySpec == QInit /\ [][QNext]_vars

\* The recorder and the query endpoints side by side on one clock: an
\* invocation has synchronised the n subscriptions of the billing source
\* and stands before its recorder stage; requests come in while it runs.
ClockInit ==
  /\ now = 3
  /\ stripe = [s \in SubIds |-> MkSub(s, "active", Null, NoDiscount)]
  /\ \E n \in 1..MaxSubs :
       /\ subscriptions =
            [s \in 1..n |->
               processSubscription(stripe[s], Customer(stripe[s].customer))]
       /\ run = [r \in Runs |->
                  IF r = 1
                    THEN [IdleRun EXCEPT !.pc = "load", !.order = 1,
                                         !.processed = n]
                    ELSE IdleRun]
  /\ ledger = EmptyBag
  /\ failures = 0
  /\ payments = [c \in Customers |-> << >>]
  /\ ret = IdleRet
  /\ conv = IdleConv
  /\ call = IdleCall
  /\ fetch = IdleFetch

ClockNext ==
  \/ Tick
  \/ \E r \in Runs : \E ok \in BOOLEAN : recorderLoad(r, ok)
  \/ \E r \in Runs : \E ok \in BOOLEAN : recorderDelete(r, ok)
  \/ \E r \in Runs : \E ok \in BOOLEAN : recorderInsertPage(r, ok)
  \/ \E r \in Runs : recorderFinish(r)
  \/ \E period \in RetentionPeriods : \E previousOk, todayOk \in BOOLEAN :
       retentionRequest(period, previousOk, todayOk)
  \/ \E period \in ConversionPeriods : trialConversionRequest(period)

ClockSpec == ClockInit /\ [][ClockNext]_vars

\* ------------------------------------------- fetching the subscriptions
\* The billing source holds up to MaxSource subscriptions and serves them
\* in its own order, PageLimit to a page.
MaxSource == 3
PageLimit == 2

RECURSIVE DistinctSeqs(_, _)
DistinctSeqs(S, n) ==
  IF n = 0 THEN {<< >>}
  ELSE {<< >>} \cup {<<x>> \o q : x \in S, q \in DistinctSeqs(S, n - 1)}

Sources ==
  {q \in DistinctSeqs(1..MaxSource, MaxSource) :
     \A i \in 1..Len(q) : \A j \in 1..Len(q) : q[i] = q[j] => i = j}

\* stripe.subscriptions.list(params): the page after the cursor and whether
\* more follow.  A source with glitch = c answers the request whose cursor
\* is c (Null: the request without cursor) with an empty page and
\* has_more = true.
stripeSubscriptionsList(source, glitch, starting_after) ==
  IF glitch = starting_after
    THEN [data |-> << >>, has_more |-> TRUE]
  ELSE LET from == IF starting_after = Null THEN 0
                   ELSE CHOOSE k \in 1..Len(source) :
                          source[k] = starting_after
           to == Min(from + PageLimit, Len(source)) IN
         [data |-> SubSeq(source, from + 1, to),
          has_more |-> to < Len(source)]

FetchInit ==
  /\ now = 3
  /\ stripe = [s \in SubIds |-> MkSub(s, "active", Null, NoDiscount)]
  /\ subscriptions = << >>
  /\ ledger = EmptyBag
  /\ run = [r \in Runs |-> IdleRun]
  /\ failures = 0
  /\ payments = [c \in Customers |-> << >>]
  /\ ret = IdleRet
  /\ conv = IdleConv
  /\ call = IdleCall
  /\ \E source \in Sources :
       \E glitch \in {NoGlitch, Null} \cup {source[k] : k \in 1..Len(source)} :
         fetch = [IdleFetch EXCEPT !.pc = "loop", !.source = source,
                                   !.glitch = glitch]

\* getAllStripeSubscriptions, lines 151-178: one turn of the while loop.  A
\* request that fails is rethrown.
getAllStripeSubscriptions(ok) ==
  /\ fetch.pc = "loop"
  /\ fetch.hasMore
  /\ Fails(ok)
  /\ fetch' =
       IF ~ok THEN [fetch EXCEPT !.pc = "raised"]
       ELSE LET response ==
                  stripeSubscriptionsList(fetch.source, fetch.glitch,
                                          fetch.startingAfter) IN
              [fetch EXCEPT
                 !.subscriptions = @ \o response.data,
                 !.hasMore = response.has_more,
                 !.startingAfter =
                   IF response.has_more /\ Len(response.data) > 0
                     THEN response.data[Len(response.data)] ELSE @,
                 !.pc = IF response.has_more THEN "loop" ELSE "done"]
  /\ UNCHANGED <<now, stripe, subscriptions, ledger, run, payments, ret,
                 conv, call>>

FetchNext == \E ok \in BOOLEAN : getAllStripeSubscriptions(ok)

FetchSpec == FetchInit /\ [][FetchNext]_vars

\* The loop keeps running: a turn whose request is answered is taken;
\* nothing obliges a request to fail.
FetchFairSpec == FetchSpec /\ WF_vars(getAllStripeSubscriptions(TRUE))

TypeOK ==
  /\ now \in 3..MaxNow
  /\ failures \in 0..MaxFailures
  /\ DOMAIN subscriptions \subseteq SubIds
  /\ IsABag(ledger)

\* ------------------------------------- the classification functions
\* The functions are applied to inputs drawn from bounded sets: every
\* status, a null and a set canceled_at, every kind of discount, line-item
\* lists of up to MaxItems items, and two malformed subscriptions (no
\* items object, an item without price).
MaxItems == 2

\* One dollar in the unit of monthly values.
Dollar == 30000

Item(unit_amount, quantity) ==
  [has_price |-> TRUE, unit_amount |-> unit_amount, quantity |-> quantity,
   interval |-> "month"]

NoPriceItem ==
  [has_price |-> FALSE, unit_amount |-> Null, quantity |-> 1, interval |-> ""]

ItemKinds == {Item(0, 1), Item(3000, 2), Item(4000, 1), Item(10000, 1)}

ItemLists == UNION {[1..n -> ItemKinds] : n \in 0..MaxItems}

CallDiscounts ==
  {NoDiscount, FullDiscount,
   [present |-> TRUE, has_coupon |-> FALSE, percent_off |-> Null,
    amount_off |-> Null],
   [present |-> TRUE, has_coupon |-> TRUE, percent_off |-> 50,
    amount_off |-> Null],
   [present |-> TRUE, has_coupon |-> TRUE, percent_off |-> Null,
    amount_off |-> 2500],
   [present |-> TRUE, has_coupon |-> TRUE, percent_off |-> Null,
    amount_off |-> 5000]}

CallSubs ==
  LET base == {MkSub(1, st, ca, di) :
                 st \in Statuses, ca \in {Null, 7}, di \in CallDiscounts} IN
    {[b EXCEPT !.items = il] : b \in base, il \in ItemLists}
    \cup {[b EXCEPT !.has_items = FALSE, !.items = << >>] : b \in base}
    \cup {[b EXCEPT !.items = <<NoPriceItem>>] : b \in base}

\* Customer emails: none, an ordinary one, one of the excluded domain, and
\* one of another domain whose name ends in the excluded one
\* (notusebear.ai, held as two tokens).
CallCustomers ==
  {[id |-> 1, email |-> em] :
     em \in {<< >>, <<"user", "@", "example.com">>,
             <<"dev", "@", "usebear.ai">>,
             <<"user", "@", "not", "usebear.ai">>}}

CallAmounts == {0, 999, 70000, 120000}

CallIntervals == {"month", "year", "week", "day", "quarter", ""}

CallInputs ==
  {[IdleCall EXCEPT !.pc = "ready", !.subscription = sub, !.customer = c] :
     sub \in CallSubs, c \in CallCustomers}
  \cup {[IdleCall EXCEPT !.pc = "ready", !.amount = a, !.interval = i] :
          a \in CallAmounts, i \in CallIntervals}

ClassifyInit ==
  /\ now = 3
  /\ stripe = [s \in SubIds |-> MkSub(s, "active", Null, NoDiscount)]
  /\ subscriptions = << >>
  /\ ledger = EmptyBag
  /\ run = [r \in Runs |-> IdleRun]
  /\ failures = 0
  /\ payments = [c \in Customers |-> << >>]
  /\ ret = IdleRet
  /\ conv = IdleConv
  /\ call \in CallInputs
  /\ fetch = IdleFetch

\* shouldCountSubscription / shouldCountTrial reach the discount
\* computation, and raise with it, only past their first two tests.
shouldCountRaises(status, subscription) ==
  /\ subscription.status = status
  /\ Falsy(subscription.canceled_at)
  /\ calculateDiscountPercentRaises(subscription)

Returned(fn, raised, flag, value) ==
  [call EXCEPT !.pc = "returned", !.fn = fn, !.raised = raised,
               !.flag = flag, !.value = value]

callCalculateDiscountPercent ==
  /\ call.pc = "ready"
  /\ LET raised == calculateDiscountPercentRaises(call.subscription) IN
       call' = Returned("calculateDiscountPercent", raised, FALSE,
                        IF raised THEN 0
                        ELSE calculateDiscountPercent(call.subscription))
  /\ UNCHANGED <<now, stripe, subscriptions, ledger, run, failures, payments,
                 ret, conv, fetch>>

callShouldCountSubscription ==
  /\ call.pc = "ready"
  /\ LET raised == shouldCountRaises("active", call.subscription) IN
       call' = Returned("shouldCountSubscription", raised,
                        IF raised THEN FALSE
                        ELSE shouldCountSubscription(call.subscription,
                                                     call.customer),
                        0)
  /\ UNCHANGED <<now, stripe, subscriptions, ledger, run, failures, payments,
                 ret, conv, fetch>>

callShouldCountTrial ==
  /\ call.pc = "ready"
  /\ LET raised == shouldCountRaises("trialing", call.subscription) IN
       call' = Returned("shouldCountTrial", raised,
                        IF raised THEN FALSE
                        ELSE shouldCountTrial(call.subscription,
                                              call.customer),
                        0)
  /\ UNCHANGED <<now, stripe, subscriptions, ledger, run, failures, payments,
                 ret, conv, fetch>>

callNormalizeToMonthly ==
  /\ call.pc = "ready"
  /\ call' = Returned("normalizeToMonthly", FALSE, FALSE,
                      normalizeToMonthly(call.amount, call.interval))
  /\ UNCHANGED <<now, stripe, subscriptions, ledger, run, failures, payments,
                 ret, conv, fetch>>

ClassifyNext ==
  \/ callCalculateDiscountPercent
  \/ callShouldCountSubscription
  \/ callShouldCountTrial
  \/ callNormalizeToMonthly

ClassifySpec == ClassifyInit /\ [][ClassifyNext]_vars

\* ====================================================================
\* Properties
\* ====================================================================

\* Inputs of the classification functions: every status, a null, zero and
\* set canceled_at, no discount, percent-off and amount-off coupons.
ClassifyDiscounts ==
  {NoDiscount, FullDiscount,
   [present |-> TRUE, has_coupon |-> FALSE, percent_off |-> Null,
    amount_off |-> Null],
   [present |-> TRUE, has_coupon |-> TRUE, percent_off |-> 50,
    amount_off |-> Null],
   [present |-> TRUE, has_coupon |-> TRUE, percent_off |-> Null,
    amount_off |-> 500],
   [present |-> TRUE, has_coupon |-> TRUE, percent_off |-> Null,
    amount_off |-> 1000]}

ClassifySubs ==
  {[MkSub(1, st, ca, di) EXCEPT !.status = st] :
     st \in Statuses, ca \in {Null, 0, 7}, di \in ClassifyDiscounts}

ClassifyCustomers ==
  {[id |-> 1, email |-> em] :
     em \in {<< >>, <<"user", "@", "example.com">>,
             <<"dev", "@", "usebear.ai">>}}

\* The subscription ids with a counted row on date d.
CountedIds(L, d) ==
  {e.stripe_subscription_id : e \in DOMAIN todaySubscriptions(L, d)}

DetailIds(details, status) ==
  {details[k].stripe_subscription_id :
     k \in {j \in 1..Len(details) : details[j].status = status}}

RetentionAnswered == ret.pc = "done" /\ ret.http = 200

\* C1: a retention response partitions baseline and target into
\* retained = baseline \cap target, churned = baseline \ target and
\* new = target \ baseline, and reports their sizes and the target's size.
CE_C1 ==
  RetentionAnswered =>
    LET baseline == CountedIds(ledger, ret.previousDateStr)
        target == CountedIds(ledger, ret.todayStr) IN
      /\ DetailIds(ret.subscription_details, "retained")
           = baseline \cap target
      /\ DetailIds(ret.subscription_details, "churned") = baseline \ target
      /\ ret.retained_customers = Cardinality(baseline \cap target)
      /\ ret.churned_customers = Cardinality(baseline \ target)
      /\ ret.new_customers = Cardinality(target \ baseline)
      /\ ret.current_period_customers = Cardinality(target)

\* C2: the retention_rate of a response lies in [0, 100] (here 0..10000
\* hundredths) and is 0 when no counted row exists for the baseline date;
\* a request whose store queries succeed is answered, never an error.
C2_RateInRange ==
  /\ (ret.pc = "done" /\ failures = 0) => ret.http = 200
  /\ RetentionAnswered =>
       /\ ret.retention_rate \in 0..10000
       /\ todaySubscriptions(ledger, ret.previousDateStr) = EmptyBag
            => ret.retention_rate = 0

\* A response over an empty baseline while counted rows exist for today.
W_C2 ==
  /\ RetentionAnswered
  /\ todaySubscriptions(ledger, ret.previousDateStr) = EmptyBag
  /\ todaySubscriptions(ledger, ret.todayStr) # EmptyBag
  /\ ret.retention_rate = 0

BothFlags(row) == row.is_counted /\ row.is_trial_counted

\* C3: the two classification functions never both return true, and no row
\* of the subscriptions table or of the snapshot ledger has is_counted and
\* is_trial_counted both true.
C3_FlagsDisjoint ==
  /\ \A sub \in ClassifySubs : \A c \in ClassifyCustomers :
       ~(shouldCountSubscription(sub, c) /\ shouldCountTrial(sub, c))
  /\ \A s \in DOMAIN subscriptions : ~BothFlags(subscriptions[s])
  /\ \A e \in DOMAIN ledger : ~BothFlags(e)

\* Syncs, webhooks and recorder runs have produced counted and
\* trial-counted rows in both stores.
W_C3 ==
  /\ \E s \in DOMAIN subscriptions : subscriptions[s].is_counted
  /\ \E s \in DOMAIN subscriptions : subscriptions[s].is_trial_counted
  /\ \E e \in DOMAIN ledger : e.is_counted
  /\ \E e \in DOMAIN ledger : e.is_trial_counted
  /\ \E r \in Runs : run[r].pc = "done" /\ run[r].totalInserted > 0

Completed(r) ==
  run[r].pc = "done" /\ run[r].response = "success" /\ ~run[r].loadFailed

Clean(r) == ~run[r].deleteFailed /\ run[r].insertErrors = 0

\* C4: a second recorder run for the same date over an unchanged
\* subscriptions table leaves for that date the rows the first run left
\* (stated for a first run that wrote its whole batch).
CE_C4 ==
  \A a \in Runs : \A b \in Runs :
    ( /\ Completed(a) /\ Completed(b) /\ Clean(a)
      /\ run[a].order < run[b].order
      /\ run[a].today = run[b].today
      /\ run[a].batch = run[b].batch )
    => run[b].after = run[a].after

\* C5: while a recorder run replaces the rows of its date, a reader's query
\* for that date returns the complete previous batch or the complete new
\* batch.
CE_C5 ==
  \A r \in Runs :
    run[r].pc = "insert" =>
      \/ todaySubscriptions(ledger, run[r].today)
           = todaySubscriptions(run[r].before, run[r].today)
      \/ todaySubscriptions(ledger, run[r].today)
           = todaySubscriptions(BagOfSeq(run[r].batch), run[r].today)

\* C6: with recorder runs that never overlap, the ledger holds at most one
\* row per (date, subscription id), whatever store calls fail.
CE_C6 ==
  \A e \in DOMAIN ledger :
    RowCount(ledger, e.date, e.stripe_subscription_id) <= 1

LedgerDates(L) == {e.date : e \in DOMAIN L}

\* C7: the rows of a date change only in a delete or page-insert step of a
\* recorder run for that very date; syncs, webhooks and runs for other
\* dates leave them as written.
C7_OtherDatesUntouched ==
  [][\A d \in LedgerDates(ledger) \cup LedgerDates(ledger') :
       RowsOn(ledger', d) # RowsOn(ledger, d) =>
         \E r \in Runs : /\ run[r].today = d
                          /\ run[r].pc \in {"delete", "insert"}
                          /\ run'[r] # run[r]]_vars

\* A run for a later date has completed while the ledger keeps a row of an
\* earlier date whose live record has since changed.
W_C7 ==
  \E e \in DOMAIN ledger : \E r \in Runs :
    /\ Completed(r) /\ run[r].totalInserted > 0 /\ ~run[r].deleteFailed
    /\ e.date < run[r].today
    /\ e.stripe_subscription_id \in DOMAIN subscriptions
    /\ subscriptions[e.stripe_subscription_id].subscription_status
         # e.subscription_status

\* C8: every row of the batch a recorder run builds carries the flags the
\* classification functions give for the subscription at the time of the
\* run.
CE_C8 ==
  [][\A r \in Runs :
       (run[r].pc = "load" /\ run'[r].pc = "delete") =>
         \A k \in 1..Len(run'[r].batch) :
           LET row == run'[r].batch[k]
               sub == stripe[row.stripe_subscription_id]
               cus == Customer(sub.customer) IN
             /\ row.is_counted = shouldCountSubscription(sub, cus)
             /\ row.is_trial_counted = shouldCountTrial(sub, cus)]_vars

ConversionAnswered ==
  /\ conv.pc = "done" /\ conv.http = 200
  /\ RowsOn(ledger, conv.lookbackDateStr) # EmptyBag

Cohort == trialSubscriptionIds(ledger, conv.lookbackDateStr, conv.todayStr)

\* The dates after an id's first trial date on which it has a counted row.
CountedAfterTrial(id) ==
  {e.date : e \in {x \in DOMAIN ledger :
     /\ x.stripe_subscription_id = id
     /\ x.is_counted
     /\ x.date > first_trial_date(ledger, conv.lookbackDateStr,
                                  conv.todayStr, id)}}

\* C9: a cohort subscription that is not trialing today and has a counted
\* row dated after its first trial date is reported converted, with the
\* earliest such date as conversion_date (stated for requests in which no
\* store or billing call failed).
CE_C9 ==
  (ConversionAnswered /\ failures = 0) =>
    \A id \in Cohort :
      ( /\ ~stillTrialing(ledger, conv.todayStr, id)
        /\ CountedAfterTrial(id) # {} )
      => \E d \in conv.trial_details :
           /\ d.stripe_subscription_id = id
           /\ d.converted
           /\ d.conversion_date = MinOf(CountedAfterTrial(id))

\* C10: every cohort id is still pending, converted or lost; pending ids
\* are in neither count, every other id is in exactly one, and the rate is
\* converted / (converted + lost) x 100, 0 when that sum is 0.
CE_C10 ==
  ConversionAnswered =>
    LET converted == {d \in conv.trial_details : d.converted}
        lost == {d \in conv.trial_details : ~d.converted}
        EntriesOf(id) ==
          {d \in conv.trial_details : d.stripe_subscription_id = id} IN
      /\ \A id \in Cohort :
           IF stillTrialing(ledger, conv.todayStr, id)
             THEN EntriesOf(id) = {}
             ELSE Cardinality(EntriesOf(id)) = 1
      /\ conv.converted_trials = Cardinality(converted)
      /\ conv.unconverted_trials = Cardinality(lost)
      /\ conv.conversion_rate =
           IF Cardinality(converted) + Cardinality(lost) = 0 THEN 0
           ELSE RoundRate(Cardinality(converted),
                          Cardinality(converted) + Cardinality(lost))

\* C11: when the payment-history lookup made for a cohort subscription
\* raises, that subscription is reported not converted with a null
\* conversion_date and counted in unconverted_trials, every other decided
\* cohort subscription still has its entry, and the response is successful.
C11_PaymentLookupFailure ==
  (conv.pc = "done" /\ conv.paymentErrors # {}) =>
    /\ conv.http = 200
    /\ \A id \in conv.paymentErrors :
         \E d \in conv.trial_details :
           /\ d.stripe_subscription_id = id
           /\ ~d.converted
           /\ d.conversion_date = Null
    /\ conv.unconverted_trials
         = Cardinality({d \in conv.trial_details : ~d.converted})
    /\ conv.unconverted_trials >= Cardinality(conv.paymentErrors)
    /\ \A id \in Cohort \ conv.statusErrors :
         ~stillTrialing(ledger, conv.todayStr, id) =>
           \E d \in conv.trial_details : d.stripe_subscription_id = id

\* The lookup for a subscription whose customer has paid raises, while
\* another cohort subscription of the request is reported converted.
W_C11 ==
  /\ conv.pc = "done"
  /\ \E id \in conv.paymentErrors :
       \E k \in 1..Len(payments[CustomerOf(id)]) :
         InvoicePays(payments[CustomerOf(id)][k])
  /\ \E d \in conv.trial_details :
       d.converted /\ d.stripe_subscription_id \notin conv.paymentErrors

\* C12: a retention response tells a missing baseline snapshot from an
\* existing one: it shows the zero previous-period count of the
\* insufficient-data result exactly when the ledger holds no row at all for
\* the baseline date.
CE_C12 ==
  RetentionAnswered =>
    ( ret.previous_period_customers = 0
      <=> RowsOn(ledger, ret.previousDateStr) = EmptyBag )

Returned_(fn) == call.pc = "returned" /\ call.fn = fn

\* The domain of an email address: what follows the '@'.
RECURSIVE DomainOf(_)
DomainOf(email) ==
  IF email = << >> THEN << >>
  ELSE IF Head(email) = "@" THEN Tail(email)
  ELSE DomainOf(Tail(email))

\* The exclusion-domain set, with its domain as one name.
InExclusionDomain(customer) == DomainOf(customer.email) = ExcludedSuffix

\* The four conjuncts of the counting predicate for a status.
FourConjuncts(status, subscription, customer) ==
  /\ subscription.status = status
  /\ subscription.canceled_at = Null
  /\ calculateDiscountPercent(subscription) < 100
  /\ ~InExclusionDomain(customer)

\* C13: shouldCountSubscription returns true exactly when status is
\* 'active', canceled_at is null, the discount percentage is below 100 and
\* the customer email is not in the exclusion-domain set; shouldCountTrial
\* likewise with status 'trialing'.
CE_C13 ==
  /\ (Returned_("shouldCountSubscription") /\ ~call.raised) =>
       (call.flag <=> FourConjuncts("active", call.subscription,
                                    call.customer))
  /\ (Returned_("shouldCountTrial") /\ ~call.raised) =>
       (call.flag <=> FourConjuncts("trialing", call.subscription,
                                    call.customer))

\* The total line-item amount: unit_amount x quantity summed by index.
RECURSIVE LineItemTotal(_, _)
LineItemTotal(items, n) ==
  IF n = 0 THEN 0
  ELSE items[n].unit_amount * items[n].quantity + LineItemTotal(items, n - 1)

\* C14: calculateDiscountPercent returns percent_off for a percent-off
\* coupon; for an amount-off coupon the nearest integer to
\* amount_off / total x 100, total being the sum of unit_amount x quantity
\* over all items, and 0 when total is 0; 0 without a discount object; 50
\* for 5000 off a single 10000 item.
C14_DiscountPercent ==
  (Returned_("calculateDiscountPercent") /\ ~call.raised) =>
    LET d == call.subscription.discount
        items == call.subscription.items
        total == LineItemTotal(items, Len(items)) IN
      /\ ~d.present => call.value = 0
      /\ (d.present /\ d.has_coupon /\ d.percent_off # Null) =>
           call.value = d.percent_off
      /\ (d.present /\ d.has_coupon /\ d.percent_off = Null
            /\ d.amount_off # Null) =>
           IF total = 0 THEN call.value = 0
           ELSE /\ 2 * total * call.value <= 200 * d.amount_off + total
                /\ 200 * d.amount_off + total < 2 * total * (call.value + 1)
      /\ (d.present /\ d.has_coupon /\ d.amount_off = 5000
            /\ items = <<Item(10000, 1)>>) => call.value = 50

\* An amount-off coupon on a subscription of two line items has been
\* turned into a percentage of their total.
W_C14 ==
  /\ Returned_("calculateDiscountPercent") /\ ~call.raised
  /\ call.subscription.discount.amount_off = 5000
  /\ call.subscription.items = <<Item(4000, 1), Item(3000, 2)>>
  /\ call.value = 50

\* C15: the classification functions never raise, whatever the input: a
\* call on a malformed subscription returns (0 for the discount percentage,
\* false for the counting predicates).
CE_C15 ==
  call.pc = "returned" =>
    LET malformedCoupon ==
          /\ call.subscription.discount.present
          /\ call.subscription.discount.has_coupon
          /\ call.subscription.discount.percent_off = Null
          /\ call.subscription.discount.amount_off # Null
          /\ ItemsRaise(call.subscription) IN
      /\ ~call.raised
      /\ (call.fn = "calculateDiscountPercent" /\ malformedCoupon)
           => call.value = 0
      /\ ( /\ call.fn \in {"shouldCountSubscription", "shouldCountTrial"}
           /\ malformedCoupon )
           => ~call.flag

\* C16: normalizeToMonthly gives amount/100 dollars for 'month', a twelfth
\* of that for 'year', 4.33 times it for 'week', 30 times it for 'day' and
\* amount/100 for every other interval; 120000 per year is 100.00 and
\* 70000 per week is 3031.00.
C16_NormalizeToMonthly ==
  Returned_("normalizeToMonthly") =>
    LET v == call.value
        a == call.amount
        \* amount/100 dollars, in the unit of monthly values
        dollars == a * (Dollar \div 100) IN
      /\ call.interval = "month" => v = dollars
      /\ call.interval = "year" => 12 * v = dollars
      /\ call.interval = "week" => v = 433 * (dollars \div 100)
      /\ call.interval = "day" => v = 30 * dollars
      /\ call.interval \notin {"month", "year", "week", "day"} => v = dollars
      /\ (a = 120000 /\ call.interval = "year") => v = 100 * Dollar
      /\ (a = 70000 /\ call.interval = "week") => v = 3031 * Dollar

\* The weekly example of the claim has been computed.
W_C16 ==
  /\ Returned_("normalizeToMonthly")
  /\ call.amount = 70000 /\ call.interval = "week"
  /\ call.value = 3031 * Dollar

\* C17: a recorder run whose load of the subscriptions table fails ends
\* there: it builds no batch, deletes and inserts nothing, and the step in
\* which it fails leaves the ledger as it was.
C17_LoadFailureAborts ==
  [][\A r \in Runs :
       run'[r].loadFailed =>
         /\ run'[r].pc = "done"
         /\ run'[r].batch = << >>
         /\ run'[r].totalInserted = 0 /\ run'[r].insertErrors = 0
         /\ ~run'[r].deleteFailed
         /\ run'[r] # run[r] => ledger' = ledger]_vars

\* A run's load has failed on a date for which an earlier run had written
\* rows, and those rows are still there.
W_C17 ==
  \E r \in Runs :
    /\ run[r].pc = "done" /\ run[r].loadFailed
    /\ RowsOn(ledger, UtcDate(now)) # EmptyBag
    /\ \E q \in Runs : Completed(q) /\ run[q].today = UtcDate(now)

CanceledRecord(row) ==
  /\ row.subscription_status = "canceled"
  /\ row.date_canceled # Null
  /\ ~row.is_active
  /\ ~row.is_counted
  /\ ~row.is_trial_counted

\* C18: no step of a daily sync or of a webhook handler removes a row of
\* the subscriptions table, and the row a webhook handler writes for a
\* subscription that has been deleted at the billing source is the one
\* handleSubscriptionDeleted builds: status 'canceled', a canceled date,
\* not active, not counted, not trial-counted.
C18_NeverPhysicallyDeleted ==
  [][/\ DOMAIN subscriptions \subseteq DOMAIN subscriptions'
     /\ \A s \in SubIds :
          ( /\ run' = run
            /\ subscriptions' # subscriptions
            /\ stripe[s].status = "canceled"
            /\ s \in DOMAIN subscriptions' 
            /\ (s \in DOMAIN subscriptions
                  => subscriptions'[s] # subscriptions[s]) )
          => /\ subscriptions'
                  = handleSubscriptionDeleted(subscriptions, stripe[s])
             /\ CanceledRecord(subscriptions'[s])]_vars

\* Before any daily sync has run, webhook events have stored two
\* subscriptions and then turned the record of one that had been on trial
\* into a canceled one.
W_C18 ==
  /\ \A r \in Runs : run[r].pc = "idle"
  /\ DOMAIN subscriptions = SubIds
  /\ CanceledRecord(subscriptions[1])
  /\ subscriptions[2].is_counted

\* The manually-curated records of config/hardcodedSubscriptions, by id: one
\* record, whose id 0 is no id of the billing source; every such record is
\* active and counted.
hardcodedSubscriptions == {0}

\* The records of the batch a run loaded whose is_active flag is set.
ActiveRecords(r) ==
  {run[r].batch[k].stripe_subscription_id :
     k \in {j \in 1..Len(run[r].batch) : run[r].batch[j].is_active}}

\* C19: after a recorder run whose delete and page inserts all succeeded,
\* the rows of the run's date are exactly one row per active subscription
\* record and one row per manually-curated record, and no other row.
CE_C19 ==
  \A r \in Runs :
    (Completed(r) /\ Clean(r)) =>
      /\ \A id \in ActiveRecords(r) \cup hardcodedSubscriptions :
           RowCount(run[r].after, run[r].today, id) = 1
      /\ \A e \in DOMAIN run[r].after :
           e.stripe_subscription_id
             \in ActiveRecords(r) \cup hardcodedSubscriptions

\* The snapshot-store queries that failed while the request was served:
\* every failed call of the request but the payment lookups, which go to
\* the billing source.
StoreFailures == failures - Cardinality(conv.paymentErrors)

\* C20: a retention or trial-conversion request during which a
\* snapshot-store query failed is answered with HTTP 500 and no metrics.
CE_C20 ==
  /\ (ret.pc = "done" /\ StoreFailures > 0) =>
        /\ ret.http = 500
        /\ ret.subscription_details = << >>
  /\ (conv.pc = "done" /\ StoreFailures > 0) =>
        /\ conv.http = 500
        /\ conv.trial_details = {}

\* C21: the discount percentage calculateDiscountPercent returns, which is
\* the value stored in subscriptions.percent_off, lies within 0..100 for
\* every coupon, an amount_off above the line-item total included.
CE_C21 ==
  (Returned_("calculateDiscountPercent") /\ ~call.raised) =>
    /\ call.value \in 0..100
    /\ processSubscription(call.subscription, call.customer).percent_off
         \in 0..100

\* C22: a failed delete of today's rows leaves the ledger as it was and
\* the run goes on to insert its batch; when that run ends with every page
\* inserted, it has responded success and the date holds the rows that
\* were there before the run together with the whole new batch.
C22_DeleteFailureProceeds ==
  [][\A r \in Runs :
       /\ (run[r].pc = "delete" /\ run'[r].deleteFailed) =>
            /\ ledger' = ledger
            /\ run'[r].pc = "insert"
            /\ run'[r].batch = run[r].batch
            /\ run'[r].i = 0
       /\ ( /\ run[r].pc = "insert" /\ run'[r].pc = "done"
            /\ run[r].deleteFailed /\ run[r].insertErrors = 0 ) =>
            /\ run'[r].response = "success"
            /\ run'[r].after = run[r].before (+) BagOfSeq(run[r].batch)]_vars

\* A run whose delete failed has completed on a date that already had
\* rows: the earlier rows and the new batch are both there.
W_C22 ==
  \E r \in Runs :
    /\ Completed(r) /\ run[r].deleteFailed /\ run[r].insertErrors = 0
    /\ run[r].before # EmptyBag
    /\ run[r].batch # << >>
    /\ RowsOn(ledger, run[r].today)
         = run[r].before (+) BagOfSeq(run[r].batch)

\* The page of its batch a run is about to insert.
NextPage(r) ==
  SubSeq(run[r].batch, run[r].i + 1,
         Min(run[r].i + BatchSize, Len(run[r].batch)))

\* C23: a failed page insert adds one to the error count, adds no row and
\* moves the loop on by one page; a successful one adds exactly the rows
\* of its page; the run ends only once every page has been attempted,
\* responding success, and after a successful delete the date then holds
\* as many rows as were inserted, all of them rows of the batch.
C23_PageFailureTolerated ==
  [][\A r \in Runs :
       /\ (run[r].pc = "insert" /\ run'[r].pc = "insert"
             /\ run'[r] # run[r]) =>
            /\ run'[r].i = run[r].i + BatchSize
            /\ run'[r].batch = run[r].batch
            /\ IF run'[r].insertErrors = run[r].insertErrors + 1
                 THEN /\ ledger' = ledger
                      /\ run'[r].totalInserted = run[r].totalInserted
                 ELSE /\ run'[r].insertErrors = run[r].insertErrors
                      /\ ledger' = ledger (+) BagOfSeq(NextPage(r))
                      /\ run'[r].totalInserted
                           = run[r].totalInserted + Len(NextPage(r))
       /\ (run[r].pc = "insert" /\ run'[r].pc # "insert") =>
            /\ run[r].i >= Len(run[r].batch)
            /\ run'[r].pc = "done" /\ run'[r].response = "success"
            /\ ~run[r].deleteFailed =>
                 /\ BagCardinality(run'[r].after) = run[r].totalInserted
                 /\ run'[r].after \sqsubseteq BagOfSeq(run[r].batch)]_vars

\* A run of more than one page has completed after its first page failed:
\* the date holds the rows of the later pages only.
W_C23 ==
  \E r \in Runs :
    /\ Completed(r) /\ ~run[r].deleteFailed
    /\ Len(run[r].batch) > BatchSize
    /\ run[r].insertErrors = 1
    /\ RowsOn(ledger, run[r].today)
         = BagOfSeq(SubSeq(run[r].batch, BatchSize + 1, Len(run[r].batch)))

\* C24: in the subscription_details of a retention response no retained
\* entry comes before a churned one, and of two entries of the same group
\* the earlier one has a monthly_value at least as large as the later one.
C24_DetailsOrder ==
  RetentionAnswered =>
    LET d == ret.subscription_details IN
      \A i \in 1..Len(d) : \A j \in 1..Len(d) :
        i < j =>
          /\ ~(d[i].status = "retained" /\ d[j].status = "churned")
          /\ d[i].status = d[j].status
               => d[i].monthly_value >= d[j].monthly_value

\* A response lists a churned subscription ahead of a retained one of a
\* larger monthly value.
W_C24 ==
  /\ RetentionAnswered
  /\ Len(ret.subscription_details) = 2
  /\ ret.subscription_details[1].status = "churned"
  /\ ret.subscription_details[2].status = "retained"
  /\ ret.subscription_details[1].monthly_value
       < ret.subscription_details[2].monthly_value

\* The dates inside the request's window on which id has a trial-counted
\* ledger row.
TrialDates(id) ==
  {e.date : e \in {x \in DOMAIN ledger :
     /\ x.stripe_subscription_id = id
     /\ x.is_trial_counted
     /\ x.date >= conv.lookbackDateStr
     /\ x.date <= conv.todayStr}}

AllDone == \A r \in Runs : run[r].pc = "done"

\* The rows of the date the racing runs stamp.
RacedRows == RowsOn(ledger, UtcDate(now))

Duplicated ==
  \E s \in DOMAIN subscriptions : RowCount(ledger, UtcDate(now), s) >= 2

\* Runs whose steps interleaved have all finished and the date holds no
\* row, although a run had inserted its whole batch.
NoRowsLeft ==
  /\ AllDone
  /\ RacedRows = EmptyBag
  /\ \E r \in Runs :
       run[r].batch # << >> /\ run[r].totalInserted = Len(run[r].batch)

\* C26: nothing ties the delete of a run to its inserts, so when recorder
\* runs for one date interleave, the rows left for the date once all have
\* finished are any rows of their batches that no later delete removed:
\* up to one row per run for a (date, subscription id), and none at all
\* when the inserts after the last delete failed.  Without a failed call a
\* whole batch is there; a date left empty means that page inserts failed
\* after a delete that went through.
C26_InterleavedRuns ==
  AllDone =>
    /\ \A s \in DOMAIN subscriptions :
         RowCount(ledger, UtcDate(now), s) <= Cardinality(Runs)
    /\ \A e \in DOMAIN RacedRows :
         \E r \in Runs : \E k \in 1..Len(run[r].batch) : run[r].batch[k] = e
    /\ failures = 0 =>
         \E r \in Runs : BagOfSeq(run[r].batch) \sqsubseteq RacedRows
    /\ NoRowsLeft => \E r \in Runs : run[r].insertErrors > 0

\* Two runs whose steps interleaved have finished without a failed call
\* and the date holds a subscription's row twice.
W_C26 ==
  /\ AllDone /\ failures = 0
  /\ Duplicated
  /\ \A r \in Runs : run[r].totalInserted = Len(run[r].batch)

\* The instant lies in the part of the UTC day in which the
\* America/Los_Angeles calendar date is still the previous one.
DatesDiffer == now % 2 = 0

CE_C28 ==
  /\ <>(fetch.pc \in {"done", "raised"})
  /\ [](fetch.pc = "done" => fetch.subscriptions = fetch.source)

\* C29: in a successful retention response, from either implementation of
\* the route, retained_customers + churned_customers =
\* previous_period_customers = the number of subscription_details entries.
CE_C29 ==
  RetentionAnswered =>
    /\ ret.retained_customers + ret.churned_customers
         = ret.previous_period_customers
    /\ ret.previous_period_customers = Len(ret.subscription_details)

\* The stages of the handler in their order.
StageAfter(pc) ==
  CASE pc = "idle" -> {"mrr", "done"}
    [] pc = "mrr" -> {"load"}
    [] pc = "load" -> {"delete", "done"}
    [] pc = "delete" -> {"insert"}
    [] pc = "insert" -> {"insert", "done"}
    [] OTHER -> {}

\* C30: an invocation goes through fetch and upsert, the MRR history, the
\* recorder, in that order.  A failed fetch ends it with an error response,
\* nothing upserted and no later stage run.  Otherwise processed + errors
\* is the number of subscriptions fetched, a failure of the MRR stage or of
\* the recorder's load does not stop it, and it responds success with the
\* counts of the upsert stage.
C30_HandlerStages ==
  [][\A r \in Runs :
       run'[r] # run[r] =>
         /\ run'[r].pc \in StageAfter(run[r].pc)
         /\ (run[r].pc = "idle" /\ run'[r].pc = "done") =>
              /\ run'[r].response = "error"
              /\ subscriptions' = subscriptions /\ ledger' = ledger
              /\ run'[r].processed = 0 /\ run'[r].errors = 0
         /\ (run[r].pc = "idle" /\ run'[r].pc = "mrr") =>
              /\ run'[r].processed + run'[r].errors = Cardinality(SubIds)
              /\ \E failed \in SUBSET SubIds :
                   /\ run'[r].errors = Cardinality(failed)
                   /\ \A s \in SubIds \ failed :
                        /\ s \in DOMAIN subscriptions'
                        /\ subscriptions'[s]
                             = processSubscription(stripe[s],
                                 Customer(stripe[s].customer))
                   /\ \A s \in failed :
                        IF s \in DOMAIN subscriptions
                          THEN subscriptions'[s] = subscriptions[s]
                          ELSE s \notin DOMAIN subscriptions'
         /\ run[r].pc # "idle" =>
              /\ run'[r].processed = run[r].processed
              /\ run'[r].errors = run[r].errors
              /\ run'[r].pc = "done" => run'[r].response = "success"
         /\ (run[r].pc = "mrr" /\ run'[r].mrrFailed) =>
              run'[r].pc = "load" /\ ledger' = ledger]_vars

\* An invocation whose MRR stage failed has gone on to record its
\* snapshots and has responded success with the counts of its upserts.
W_C30 ==
  \E r \in Runs :
    /\ run[r].pc = "done" /\ run[r].response = "success"
    /\ run[r].mrrFailed
    /\ run[r].totalInserted > 0
    /\ run[r].processed + run[r].errors = Cardinality(SubIds)

====
